---- MODULE Spec2Model ----
(***************************************************************************)
(* ChatService (apps/api/src/chat/chat.service.ts): cursor pagination over *)
(* the visible chats, the vote write, and the dataset export pipeline.     *)
(***************************************************************************)
EXTENDS Integers, Sequences, FiniteSets, TLC

(* ---------------------------- bounds ----------------------------------- *)
MaxTime == 3
MaxLimit == 2

(* ---------------------------- chat store -------------------------------- *)
Users == {"u1", "u2"}
Projects == {"p1", "p2"}
ChatVisibilityType == {"PRIVATE", "PUBLIC"}
ChatIds == {"c1", "c2", "c3"}
Times == 1..MaxTime
Null == "null"

Chat == [id : ChatIds, userId : Users, projectId : Projects,
         visibility : ChatVisibilityType, createdAt : Times]

NoChat == [id |-> Null]

VARIABLES chats, pc, args, cursorChat, result,
          votes, vote,
          messages, callers, ex, archive, finalized, lastFinalized,
          fd, written, files, content

pageVars == <<chats, pc, args, cursorChat, result>>
voteVars == <<votes, vote>>
exportVars == <<messages, callers, ex, archive, finalized, lastFinalized,
                fd, written, files, content>>
vars == <<pageVars, voteVars, exportVars>>

NoArgs == [id |-> "", projectId |-> "", limit |-> 0,
           startingAfter |-> Null, endingBefore |-> Null]
NoResult == [kind |-> "none", chats |-> <<>>, hasMore |-> FALSE]

(* the caller is u1 in project p1; the store ranges over both users and both *)
(* projects. At most one of the two cursors is supplied.                     *)
PaginationParams ==
    {a \in [id : {"u1"}, projectId : {"p1"}, limit : 0..MaxLimit,
            startingAfter : {Null} \cup ChatIds,
            endingBefore : {Null} \cup ChatIds] :
        a.startingAfter = Null \/ a.endingBefore = Null}

(* prisma.chat.findUnique({ where: { id } }) *)
FindUnique(store, id) ==
    IF \E c \in store : c.id = id
    THEN CHOOSE c \in store : c.id = id
    ELSE NoChat

ExtendedLimitNoOverscan(limit) == limit

ExtendedLimit(limit) == limit + 1

BaseWherePublicAnyProject(c, id, projectId) ==
    \/ c.userId = id /\ c.projectId = projectId
    \/ c.visibility = "PUBLIC"

BaseWhere(c, id, projectId) ==
    \/ c.userId = id /\ c.projectId = projectId
    \/ c.visibility = "PUBLIC" /\ c.projectId = projectId

(* the where clause of each findMany branch *)
WhereAfter(c, a, anchor) == BaseWhere(c, a.id, a.projectId) /\ c.createdAt > anchor.createdAt
WhereBefore(c, a, anchor) == BaseWhere(c, a.id, a.projectId) /\ c.createdAt < anchor.createdAt
WhereFirst(c, a) == BaseWhere(c, a.id, a.projectId)

Branch(a) ==
    IF a.startingAfter # Null THEN "after"
    ELSE IF a.endingBefore # Null THEN "before"
    ELSE "none"

Where(c, a, anchor) ==
    CASE Branch(a) = "after" -> WhereAfter(c, a, anchor)
      [] Branch(a) = "before" -> WhereBefore(c, a, anchor)
      [] OTHER -> WhereFirst(c, a)

Rows(store, a, anchor) == {c \in store : Where(c, a, anchor)}

(* orderBy: { createdAt: 'desc' }: every order of the rows the store may   *)
(* produce; rows with equal createdAt come in any order                    *)
OrderByCreatedAtDesc(rows) ==
    {s \in [1..Cardinality(rows) -> rows] :
        /\ \A i, j \in DOMAIN s : i # j => s[i] # s[j]
        /\ \A i, j \in DOMAIN s : i < j => s[i].createdAt >= s[j].createdAt}

Min(a, b) == IF a < b THEN a ELSE b

(* take: n *)
Take(s, n) == SubSeq(s, 1, Min(Len(s), n))

(* findMany({ where, orderBy: { createdAt: 'desc' }, take }) *)
FindMany(store, a, anchor) ==
    {Take(s, ExtendedLimit(a.limit)) : s \in OrderByCreatedAtDesc(Rows(store, a, anchor))}

HasMore(rows, limit) == Len(rows) > limit

(* chats.slice(0, limit) *)
Slice(rows, limit) == SubSeq(rows, 1, Min(Len(rows), limit))

Page(rows, limit) ==
    [kind |-> "page",
     chats |-> IF HasMore(rows, limit) THEN Slice(rows, limit) ELSE rows,
     hasMore |-> HasMore(rows, limit)]

NotFound == [kind |-> "error", chats |-> <<>>, hasMore |-> FALSE]

OnMissingCursorEmptyPage == [kind |-> "page", chats |-> <<>>, hasMore |-> FALSE]

(* the outcome of a cursor lookup that found no chat *)
OnMissingCursor == NotFound

InitPage ==
    /\ chats = {}
    /\ pc = "idle"
    /\ args = NoArgs
    /\ cursorChat = NoChat
    /\ result = NoResult

(* store writes of other requests. A write that lands between the cursor   *)
(* lookup and the scan of a call (two separate store calls) and leaves the *)
(* anchor alone gives the scan the store it would have had with the write  *)
(* placed before the call, so only the deletion of the anchor is placed in *)
(* that window. A page is examined in the state in which it was produced.  *)
CanWrite == pc = "idle"

Create(c) ==
    /\ CanWrite
    /\ \A d \in chats : d.id # c.id
    /\ chats' = chats \cup {c}
    /\ UNCHANGED <<pc, args, cursorChat, result, voteVars, exportVars>>

UpdateChatVisibleById(chatId, visibility) ==
    /\ CanWrite
    /\ \E c \in chats :
        /\ c.id = chatId
        /\ c.visibility # visibility
        /\ chats' = (chats \ {c}) \cup {[c EXCEPT !.visibility = visibility]}
    /\ UNCHANGED <<pc, args, cursorChat, result, voteVars, exportVars>>

Remove(id) ==
    /\ CanWrite \/ (pc = "resolved" /\ id = cursorChat.id)
    /\ \E c \in chats : c.id = id /\ chats' = chats \ {c}
    /\ UNCHANGED <<pc, args, cursorChat, result, voteVars, exportVars>>

(* getChatsByUserId up to its first await *)
GetChatsFirstPage(a) ==
    /\ pc = "idle"
    /\ Branch(a) = "none"
    /\ \E rows \in FindMany(chats, a, NoChat) :
        result' = Page(rows, a.limit)
    /\ pc' = "returned"
    /\ args' = a
    /\ UNCHANGED <<chats, cursorChat, voteVars, exportVars>>

GetChatsResolve(a) ==
    /\ pc = "idle"
    /\ Branch(a) # "none"
    /\ LET found == FindUnique(chats,
                      IF Branch(a) = "after" THEN a.startingAfter ELSE a.endingBefore)
       IN /\ cursorChat' = found
          /\ IF found = NoChat
             THEN pc' = (IF OnMissingCursor.kind = "error" THEN "error" ELSE "returned")
                  /\ result' = OnMissingCursor
             ELSE pc' = "resolved" /\ result' = NoResult
    /\ args' = a
    /\ UNCHANGED <<chats, voteVars, exportVars>>

GetChatsScan ==
    /\ pc = "resolved"
    /\ \E rows \in FindMany(chats, args, cursorChat) :
        result' = Page(rows, args.limit)
    /\ pc' = "returned"
    /\ UNCHANGED <<chats, args, cursorChat, voteVars, exportVars>>

(* the caller receives the page or the error *)
Deliver ==
    /\ pc \in {"returned", "error"}
    /\ pc' = "idle"
    /\ args' = NoArgs
    /\ cursorChat' = NoChat
    /\ result' = NoResult
    /\ UNCHANGED <<chats, voteVars, exportVars>>

NextPage ==
    \/ \E c \in Chat : Create(c)
    \/ \E i \in ChatIds, v \in ChatVisibilityType : UpdateChatVisibleById(i, v)
    \/ \E i \in ChatIds : Remove(i)
    \/ \E a \in PaginationParams : GetChatsFirstPage(a)
    \/ \E a \in PaginationParams : GetChatsResolve(a)
    \/ GetChatsScan
    \/ Deliver

(* ---------------------------- votes ------------------------------------- *)
VoteChatIds == {"c1", "c2"}
MessageIds == {"m1", "m2"}
VoteTypes == {"up", "down"}
Requests == {"r1", "r2"}

NoVote == [chatId |-> Null]
NoVoteCall == [pc |-> "idle", chatId |-> Null, messageId |-> Null, type |-> Null,
               existingVote |-> NoVote, outcome |-> "none"]

(* prisma.chatMessageVote.findUnique({ where: { chatId_messageId } }) *)
FindUniqueVote(store, chatId, messageId) ==
    IF \E v \in store : v.chatId = chatId /\ v.messageId = messageId
    THEN CHOOSE v \in store : v.chatId = chatId /\ v.messageId = messageId
    ELSE NoVote

IsUpvote(type) == type = "up"

VoteInit ==
    /\ votes = {}
    /\ vote = [r \in Requests |-> NoVoteCall]

(* voteMessage up to the await of findUnique *)
VoteFind(r, chatId, messageId, type) ==
    /\ vote[r].pc = "idle"
    /\ vote' = [vote EXCEPT ![r] =
                  [pc |-> "found", chatId |-> chatId, messageId |-> messageId,
                   type |-> type,
                   existingVote |-> FindUniqueVote(votes, chatId, messageId),
                   outcome |-> "none"]]
    /\ UNCHANGED <<votes, pageVars, exportVars>>

(* the update branch: the record is rewritten in place; a record that is   *)
(* gone makes the store reject the update                                  *)
VoteUpdate(r) ==
    /\ vote[r].pc = "found"
    /\ vote[r].existingVote # NoVote
    /\ LET c == vote[r]
           cur == FindUniqueVote(votes, c.chatId, c.messageId)
       IN IF cur = NoVote
          THEN /\ vote' = [vote EXCEPT ![r].pc = "done", ![r].outcome = "error"]
               /\ UNCHANGED votes
          ELSE /\ votes' = (votes \ {cur}) \cup {[cur EXCEPT !.isUpvote = IsUpvote(c.type)]}
               /\ vote' = [vote EXCEPT ![r].pc = "done", ![r].outcome = "ok"]
    /\ UNCHANGED <<pageVars, exportVars>>

(* the create branch: (chatId, messageId) is the record's unique key, so   *)
(* the store rejects a create for a pair that already has a record         *)
VoteCreate(r) ==
    /\ vote[r].pc = "found"
    /\ vote[r].existingVote = NoVote
    /\ LET c == vote[r]
       IN IF FindUniqueVote(votes, c.chatId, c.messageId) # NoVote
          THEN /\ vote' = [vote EXCEPT ![r].pc = "done", ![r].outcome = "error"]
               /\ UNCHANGED votes
          ELSE /\ votes' = votes \cup {[chatId |-> c.chatId, messageId |-> c.messageId,
                                        isUpvote |-> IsUpvote(c.type)]}
               /\ vote' = [vote EXCEPT ![r].pc = "done", ![r].outcome = "ok"]
    /\ UNCHANGED <<pageVars, exportVars>>

VoteReturn(r) ==
    /\ vote[r].pc = "done"
    /\ vote' = [vote EXCEPT ![r] = NoVoteCall]
    /\ UNCHANGED <<votes, pageVars, exportVars>>

NextVote ==
    \/ \E r \in Requests, c \in VoteChatIds, m \in MessageIds, t \in VoteTypes :
          VoteFind(r, c, m, t)
    \/ \E r \in Requests : VoteUpdate(r)
    \/ \E r \in Requests : VoteCreate(r)
    \/ \E r \in Requests : VoteReturn(r)

(* ---------------------------- export ------------------------------------ *)
ExportChatIds == {"c1", "c2"}
Roles == {"user", "assistant", "system"}
Exports == {"e1", "e2"}
NoFile == "none"

TextPart(t) == [type |-> "text", text |-> t]
ImagePart == [type |-> "image", text |-> "img"]

(* the stored parts column: serialized text. "array" is the serialization  *)
(* of a segment list, "bad" is text that is no JSON at all                 *)
Serialized(segs) == [json |-> "array", segs |-> segs]
BadJson == [json |-> "bad", segs |-> <<>>]
PartsValues ==
    {BadJson, Serialized(<<>>), Serialized(<<TextPart("a")>>),
     Serialized(<<ImagePart, TextPart("b")>>)}

ChatMessages == [id : MessageIds, chatId : ExportChatIds, role : Roles,
                 parts : PartsValues, createdAt : Times]

Thrown == [threw |-> TRUE]

(* JSON.parse(item.parts) *)
JsonParse(s) == [threw |-> s.json # "array", value |-> s.segs]

(* parts.find(part => part.type === 'text'): the index of the first text   *)
(* segment, 0 when find returns undefined                                  *)
FindText(parts) ==
    IF \E i \in DOMAIN parts : parts[i].type = "text"
    THEN CHOOSE i \in DOMAIN parts :
            /\ parts[i].type = "text"
            /\ \A j \in DOMAIN parts : parts[j].type = "text" => i <= j
    ELSE 0

From(role) == IF role = "user" THEN "human" ELSE "gpt"

(* the callback of chatData.map; reading .text of undefined throws *)
FormatItem(item) ==
    LET parsed == JsonParse(item.parts)
    IN IF parsed.threw THEN Thrown
       ELSE IF FindText(parsed.value) = 0 THEN Thrown
       ELSE [threw |-> FALSE, from |-> From(item.role),
             value |-> parsed.value[FindText(parsed.value)].text]

FormattedData(chatData) ==
    [i \in DOMAIN chatData |->
        [from |-> FormatItem(chatData[i]).from, value |-> FormatItem(chatData[i]).value]]

GetMessagesByChatIdDesc(store, id) ==
    LET rows == {m \in store : m.chatId = id}
    IN {s \in [1..Cardinality(rows) -> rows] :
          /\ \A i, j \in DOMAIN s : i # j => s[i] # s[j]
          /\ \A i, j \in DOMAIN s : i < j => s[i].createdAt >= s[j].createdAt}

(* findMany({ where: { chatId: id }, orderBy: { createdAt: 'asc' } })      *)
GetMessagesByChatId(store, id) ==
    LET rows == {m \in store : m.chatId = id}
    IN {s \in [1..Cardinality(rows) -> rows] :
          /\ \A i, j \in DOMAIN s : i # j => s[i] # s[j]
          /\ \A i, j \in DOMAIN s : i < j => s[i].createdAt <= s[j].createdAt}

Filename(projectId, chatId) == <<"DatasetLoom-", projectId, "-", chatId, ".zip">>
ZipPath(projectId, chatId) == <<"tmpdir">> \o Filename(projectId, chatId)
DatasetFilename(chatId) == <<"chat_", chatId, "_dataset.json">>
DatasetInfoName == <<"dataset_info.json">>
DatasetInfo(chatId) ==
    [DatasetLoom |-> [file_name |-> DatasetFilename(chatId),
                      formatting |-> "sharegpt",
                      columns |-> [messages |-> "conversations"]]]

Paths == {ZipPath("p1", c) : c \in ExportChatIds}

NoExport == [pc |-> "idle", projectId |-> Null, chatId |-> Null,
             chatData |-> <<>>, formattedData |-> <<>>, cause |-> "none"]

PathOf(e) == ZipPath(ex[e].projectId, ex[e].chatId)

(* ExportUtil.addJsonToArchive(archive, name, payload): one named entry    *)
AddJsonToArchive(entries, name, payload) ==
    Append(entries, [name |-> name, data |-> payload])

(* what the archive has emitted on its readable side: one chunk per entry, *)
(* and the central directory once finalize() has run                       *)
Chunks(e) ==
    [i \in DOMAIN archive[e] |-> [by |-> e, chunk |-> archive[e][i].name]]
    \o (IF finalized[e] THEN <<[by |-> e, chunk |-> <<"central directory">>]>> ELSE <<>>)

Hole == [by |-> NoFile, chunk |-> <<"hole">>]

(* a write of one chunk at offset off (0-based) of a file *)
WriteAt(data, off, c) ==
    [i \in 1..(IF off + 1 > Len(data) THEN off + 1 ELSE Len(data)) |->
        IF i = off + 1 THEN c
        ELSE IF i <= Len(data) THEN data[i]
        ELSE Hole]

ExportOff ==
    /\ ex = [e \in Exports |-> NoExport]
    /\ archive = [e \in Exports |-> <<>>]
    /\ finalized = [e \in Exports |-> FALSE]
    /\ lastFinalized = NoFile
    /\ fd = [e \in Exports |-> [state |-> "none", inode |-> NoFile]]
    /\ written = [e \in Exports |-> 0]
    /\ files = [p \in Paths |-> NoFile]
    /\ content = [e \in Exports |-> <<>>]

(* exportChatDataset up to its first await: the stream is created (its     *)
(* file is opened later, asynchronously) and the archive is piped into it  *)
ExportStart(e, projectId, chatId) ==
    /\ e \in callers
    /\ ex[e].pc = "idle"
    /\ ex' = [ex EXCEPT ![e].pc = "getMessages", ![e].projectId = projectId,
                        ![e].chatId = chatId]
    /\ fd' = [fd EXCEPT ![e].state = "opening"]
    /\ UNCHANGED <<messages, callers, archive, finalized, lastFinalized, written,
                   files, content, pageVars, voteVars>>

(* the stream's deferred open, flags 'w': create the file or truncate it   *)
StreamOpen(e) ==
    /\ fd[e].state = "opening"
    /\ IF files[PathOf(e)] = NoFile
       THEN /\ files' = [files EXCEPT ![PathOf(e)] = e]
            /\ content' = [content EXCEPT ![e] = <<>>]
            /\ fd' = [fd EXCEPT ![e] = [state |-> "open", inode |-> e]]
       ELSE /\ content' = [content EXCEPT ![files[PathOf(e)]] = <<>>]
            /\ fd' = [fd EXCEPT ![e] = [state |-> "open", inode |-> files[PathOf(e)]]]
            /\ UNCHANGED files
    /\ UNCHANGED <<messages, callers, ex, archive, finalized, lastFinalized, written,
                   pageVars, voteVars>>

(* archive.pipe(output): the next chunk the archive emitted is written at  *)
(* the stream's own position                                               *)
StreamWrite(e) ==
    /\ fd[e].state = "open"
    /\ written[e] < Len(Chunks(e))
    /\ content' = [content EXCEPT ![fd[e].inode] =
                      WriteAt(@, written[e], Chunks(e)[written[e] + 1])]
    /\ written' = [written EXCEPT ![e] = @ + 1]
    /\ UNCHANGED <<messages, callers, ex, archive, finalized, lastFinalized, fd,
                   files, pageVars, voteVars>>

(* the archive ends after finalize(); the pipe then ends the stream, which *)
(* closes its file once everything is written                              *)
StreamClose(e) ==
    /\ fd[e].state = "open"
    /\ finalized[e]
    /\ written[e] = Len(Chunks(e))
    /\ fd' = [fd EXCEPT ![e].state = "closed"]
    /\ UNCHANGED <<messages, callers, ex, archive, finalized, lastFinalized, written,
                   files, content, pageVars, voteVars>>

Throw(e, cause) == ex' = [ex EXCEPT ![e].pc = "catch", ![e].cause = cause]

ExportFetchFails(e) ==
    /\ ex[e].pc = "getMessages"
    /\ Throw(e, "store")
    /\ UNCHANGED <<messages, callers, archive, finalized, lastFinalized, fd, written,
                   files, content, pageVars, voteVars>>

(* the messages arrive; chatData.map formats them, or throws *)
ExportFormat(e) ==
    /\ ex[e].pc = "getMessages"
    /\ \E chatData \in GetMessagesByChatId(messages, ex[e].chatId) :
         IF \E i \in DOMAIN chatData : FormatItem(chatData[i]).threw
         THEN ex' = [ex EXCEPT ![e].pc = "catch", ![e].cause = "format",
                               ![e].chatData = chatData]
         ELSE ex' = [ex EXCEPT ![e].pc = "addDataset", ![e].chatData = chatData,
                               ![e].formattedData = FormattedData(chatData)]
    /\ UNCHANGED <<messages, callers, archive, finalized, lastFinalized, fd, written,
                   files, content, pageVars, voteVars>>

ExportAddDataset(e) ==
    /\ ex[e].pc = "addDataset"
    /\ archive' = [archive EXCEPT ![e] =
                      AddJsonToArchive(@, DatasetFilename(ex[e].chatId),
                                       [conversations |-> ex[e].formattedData])]
    /\ ex' = [ex EXCEPT ![e].pc = "addInfo"]
    /\ UNCHANGED <<messages, callers, finalized, lastFinalized, fd, written,
                   files, content, pageVars, voteVars>>

ExportAddInfo(e) ==
    /\ ex[e].pc = "addInfo"
    /\ archive' = [archive EXCEPT ![e] =
                      AddJsonToArchive(@, DatasetInfoName, DatasetInfo(ex[e].chatId))]
    /\ ex' = [ex EXCEPT ![e].pc = "finalize"]
    /\ UNCHANGED <<messages, callers, finalized, lastFinalized, fd, written,
                   files, content, pageVars, voteVars>>

ExportAddJsonFails(e) ==
    /\ ex[e].pc \in {"addDataset", "addInfo"}
    /\ Throw(e, "archive")
    /\ UNCHANGED <<messages, callers, archive, finalized, lastFinalized, fd, written,
                   files, content, pageVars, voteVars>>

(* await archive.finalize(); return { filePath, filename } *)
ExportFinalize(e) ==
    /\ ex[e].pc = "finalize"
    /\ finalized' = [finalized EXCEPT ![e] = TRUE]
    /\ lastFinalized' = e
    /\ ex' = [ex EXCEPT ![e].pc = "done"]
    /\ UNCHANGED <<messages, callers, archive, fd, written, files, content,
                   pageVars, voteVars>>

ExportFinalizeFails(e) ==
    /\ ex[e].pc = "finalize"
    /\ Throw(e, "archive")
    /\ UNCHANGED <<messages, callers, archive, finalized, lastFinalized, fd, written,
                   files, content, pageVars, voteVars>>

(* fs.unlink(zipPath).catch(() => null) *)
Unlink(fs, path) == [fs EXCEPT ![path] = NoFile]

(* catch (error) { await fs.unlink(zipPath).catch(() => null); throw error } *)
ExportCatch(e) ==
    /\ ex[e].pc = "catch"
    /\ files' = Unlink(files, PathOf(e))
    /\ ex' = [ex EXCEPT ![e].pc = "failed"]
    /\ UNCHANGED <<messages, callers, archive, finalized, lastFinalized, fd, written,
                   content, pageVars, voteVars>>

NextExport ==
    \/ \E e \in Exports, c \in ExportChatIds : ExportStart(e, "p1", c)
    \/ \E e \in Exports : StreamOpen(e)
    \/ \E e \in Exports : StreamWrite(e)
    \/ \E e \in Exports : StreamClose(e)
    \/ \E e \in Exports : ExportFetchFails(e)
    \/ \E e \in Exports : ExportFormat(e)
    \/ \E e \in Exports : ExportAddDataset(e)
    \/ \E e \in Exports : ExportAddInfo(e)
    \/ \E e \in Exports : ExportAddJsonFails(e)
    \/ \E e \in Exports : ExportFinalize(e)
    \/ \E e \in Exports : ExportFinalizeFails(e)
    \/ \E e \in Exports : ExportCatch(e)

(* ---------------------------- specifications ---------------------------- *)
(* the store holds at most one message per id *)
MessageSlot(i) == {{}} \cup {{m} : m \in {x \in ChatMessages : x.id = i}}
MessageStores == {a \cup b : a \in MessageSlot("m1"), b \in MessageSlot("m2")}

RaceMessages ==
    {[id |-> "m1", chatId |-> "c1", role |-> "user",
      parts |-> Serialized(<<TextPart("a")>>), createdAt |-> 1],
     [id |-> "m2", chatId |-> "c1", role |-> "assistant",
      parts |-> Serialized(<<ImagePart, TextPart("b")>>), createdAt |-> 2]}

Init ==
    /\ InitPage /\ VoteInit /\ ExportOff
    /\ messages = {}
    /\ callers = {}

(* one export request at a time, over every content of the message store *)
InitExport ==
    /\ InitPage /\ VoteInit /\ ExportOff
    /\ messages \in MessageStores
    /\ callers = {"e1"}

(* two concurrent export requests *)
InitRace ==
    /\ InitPage /\ VoteInit /\ ExportOff
    /\ messages = RaceMessages
    /\ callers = Exports

Spec == Init /\ [][NextPage]_vars
SpecVote == Init /\ [][NextVote]_vars
SpecExport == InitExport /\ [][NextExport]_vars
SpecRace == InitRace /\ [][NextExport]_vars
(* ---------------------------- properties -------------------------------- *)
(* the predicate of the branch a call took, written out: the visibility    *)
(* predicate and the bound set by the cursor's createdAt                    *)
Visible(c, a) ==
    c.projectId = a.projectId /\ (c.userId = a.id \/ c.visibility = "PUBLIC")

Matching(c) ==
    /\ Visible(c, args)
    /\ args.startingAfter # Null => c.createdAt > cursorChat.createdAt
    /\ (args.startingAfter = Null /\ args.endingBefore # Null) =>
          c.createdAt < cursorChat.createdAt

Returned == {result.chats[i] : i \in DOMAIN result.chats}

(* C1: with limit L >= 1 a page holds at most L chats, and hasMore is true *)
(* exactly when a chat matching the branch's predicate exists in the store *)
(* beyond the chats returned.                                               *)
C1_PageSize ==
    (pc = "returned" /\ args.limit >= 1) =>
        /\ Len(result.chats) <= args.limit
        /\ result.hasMore <=> (\E c \in chats : Matching(c) /\ c \notin Returned)

C1_Witness ==
    /\ pc = "returned" /\ args.limit = 1 /\ args.startingAfter # Null
    /\ result.hasMore /\ Len(result.chats) = 1
    /\ Cardinality({c \in chats : Matching(c)}) = 2

(* C2: every chat returned, in any branch, is in the requested project and *)
(* is owned by the caller or PUBLIC; the call without cursor returns every *)
(* such chat when limit is at least their number.                          *)
C2_Visibility ==
    pc = "returned" =>
        /\ \A c \in Returned : Visible(c, args)
        /\ (args.startingAfter = Null /\ args.endingBefore = Null
            /\ args.limit >= Cardinality({c \in chats : Visible(c, args)})) =>
               Returned = {c \in chats : Visible(c, args)}

C2_Witness ==
    /\ pc = "returned" /\ args.startingAfter = Null /\ args.endingBefore = Null
    /\ \E c \in Returned : c.userId # args.id
    /\ \E c \in chats : c.projectId # args.projectId /\ c.visibility = "PUBLIC"
    /\ \E c \in chats : c.projectId # args.projectId /\ c.userId = args.id
    /\ Cardinality(Returned) = 2

(* C3: a call whose cursor does not resolve to a chat ends in the NotFound *)
(* error and delivers no page: a call that went through a cursor ends in   *)
(* the error exactly when the lookup found nothing, and then the store     *)
(* holds no chat with the cursor's id.                                     *)
CursorId == IF args.startingAfter # Null THEN args.startingAfter ELSE args.endingBefore

C4_CursorSymmetry ==
    (/\ pc = "returned" /\ args.startingAfter # Null /\ args.limit >= 1
     /\ cursorChat \in chats /\ Visible(cursorChat, args)
     /\ result.chats # <<>>) =>
        LET P == Returned
            newer == {c \in chats : Visible(c, args) /\ c.createdAt > cursorChat.createdAt}
            beforeP == {c \in chats : Visible(c, args)
                                      /\ \A p \in P : c.createdAt < p.createdAt}
            back == [args EXCEPT !.startingAfter = Null,
                                 !.endingBefore = result.chats[1].id]
        IN /\ \A c \in newer \ P : \A p \in P : c.createdAt >= p.createdAt
           /\ \A rows \in FindMany(chats, back, result.chats[1]) :
                 Page(rows, args.limit).chats \in
                    {Take(s, args.limit) : s \in OrderByCreatedAtDesc(beforeP)}

(* C6: a call with limit = 0 is rejected; it never returns a page.         *)
C6_LimitZeroRejected == ~(pc = "returned" /\ args.limit = 0)

(* C7: at most one vote record per (chatId, messageId) in every state, and *)
(* no voteMessage call fails, whatever the interleaving of the calls.      *)
C7_VoteUniqueNoFailure ==
    /\ \A v, w \in votes : (v.chatId = w.chatId /\ v.messageId = w.messageId) => v = w
    /\ \A r \in Requests : vote[r].outcome # "error"

(* an export has ended and nothing of it is pending any more: its stream's *)
(* open has happened and what the archive emitted is written               *)
Settled(e) ==
    /\ ex[e].pc \in {"done", "failed"}
    /\ fd[e].state # "opening"
    /\ fd[e].state = "open" => (written[e] = Len(Chunks(e)) /\ ~finalized[e])

(* C5: when formatting a message fails, then once the call has failed and  *)
(* its pending work has settled no file exists at the destination path.    *)
C5_ExportAtomicity ==
    \A e \in Exports :
        (ex[e].cause = "format" /\ Settled(e)) => files[PathOf(e)] = NoFile

(* C8: on every exit of the call, success or failure, the write stream is  *)
(* closed once the call's pending work has settled.                        *)
C8_StreamClosed ==
    \A e \in Exports : Settled(e) => fd[e].state = "closed"

(* C9: for a chat whose N messages each hold exactly one text segment, a   *)
(* successful export holds exactly the entries chat_<chatId>_dataset.json  *)
(* and dataset_info.json; conversations has N entries in ascending         *)
(* createdAt order of the messages, entry i with from = "human" for role   *)
(* user and "gpt" otherwise and value = the text of message i's text       *)
(* segment; the closed file holds that archive.                            *)
TextsOf(m) == {i \in DOMAIN m.parts.segs : m.parts.segs[i].type = "text"}
OneText(m) == m.parts.json = "array" /\ Cardinality(TextsOf(m)) = 1
TextOf(m) == m.parts.segs[CHOOSE i \in TextsOf(m) : TRUE].text

C9_ExportCompleteness ==
    \A e \in Exports :
        LET msgs == {m \in messages : m.chatId = ex[e].chatId}
            N == Cardinality(msgs)
        IN (ex[e].pc = "done" /\ \A m \in msgs : OneText(m)) =>
            /\ Len(archive[e]) = 2
            /\ archive[e][1].name = <<"chat_", ex[e].chatId, "_dataset.json">>
            /\ archive[e][2].name = <<"dataset_info.json">>
            /\ LET conv == archive[e][1].data.conversations
               IN /\ Len(conv) = N
                  /\ \E s \in [1..N -> msgs] :
                       /\ \A i, j \in 1..N : i # j => s[i] # s[j]
                       /\ \A i, j \in 1..N : i < j => s[i].createdAt <= s[j].createdAt
                       /\ \A i \in 1..N :
                            conv[i] = [from |-> IF s[i].role = "user" THEN "human" ELSE "gpt",
                                       value |-> TextOf(s[i])]
            /\ fd[e].state = "closed" =>
                 /\ files[PathOf(e)] = e
                 /\ content[e] = <<[by |-> e, chunk |-> archive[e][1].name],
                                   [by |-> e, chunk |-> archive[e][2].name],
                                   [by |-> e, chunk |-> <<"central directory">>]>>

C9_Witness ==
    \E e \in Exports :
        /\ ex[e].pc = "done" /\ fd[e].state = "closed"
        /\ \E m, n \in messages :
              /\ m.id = "m1" /\ n.id = "m2"
              /\ m.chatId = ex[e].chatId /\ n.chatId = ex[e].chatId
              /\ n.createdAt < m.createdAt
              /\ m.role = "user" /\ n.role = "system"
              /\ OneText(m) /\ OneText(n) /\ Len(n.parts.segs) = 2

(* C10: two concurrent exports of the same project and chat: once both     *)
(* have ended and settled, the file at the destination path is wholly the  *)
(* output of the export that finalized last; it is neither a mix of the    *)
(* two outputs nor removed by the other export's failure cleanup.          *)
C10_LastFinalizerOwnsFile ==
    (/\ \A e \in Exports : Settled(e)
     /\ ex["e1"].chatId = ex["e2"].chatId
     /\ lastFinalized # NoFile) =>
        /\ files[PathOf(lastFinalized)] # NoFile
        /\ content[files[PathOf(lastFinalized)]] = Chunks(lastFinalized)
====
